---------------------------- MODULE Spec2Model ----------------------------
(***************************************************************************)
(* A model of the containerfs tiny-object blob store (package storage),    *)
(* its chunk-id queues, and the follower side of the blob repair protocol  *)
(* (package datanode).                                                     *)
(*                                                                         *)
(* One chunk of the store is modelled in full: every handler of BlobStore  *)
(* touches only s.chunks[chunkId], so chunks do not interact.  The chunk   *)
(* type itself (index tree, locks, doCompact, doCommit) is not among the   *)
(* sources; it is modelled from the specification's sections 3, 4.1, 4.2   *)
(* and 4.4.                                                                *)
(***************************************************************************)
EXTENDS Integers, Sequences, FiniteSets, TLC

(***************************************************************************)
(* Bounds of the model                                                     *)
(***************************************************************************)
\* largest object id a caller passes
MaxOid == 2
\* number of distinct payloads a caller passes
NPayloads == 2
\* largest payload length a caller passes
MaxSize == 2
\* number of calls started in one behaviour
MaxOps == 3
\* bits of an offset or size in the model (32 in the program)
OffsetBits == 16
\* number of queue calls started in one behaviour, not counting the
\* GetAvailChunk and GetUnAvailChunk calls that receive an id
MaxQueueOps == 3
\* largest watermark of a leader in a repair
MaxRemoteOid == 3

(***************************************************************************)
(* Program constants                                                       *)
(***************************************************************************)
ObjectHeaderSize == 20
TinyChunkCount == 10
\* Object.Offset and Object.Size are uint32.  TLC's integers are 32-bit
\* signed, so the model keeps the wrap-around at a narrower width.
U32 == 2^OffsetBits
\* the size sentinel of a deleted object: the largest value of the width
TombstoneFileSize == U32 - 1

Workers == {"w1", "w2"}
Compactor == "cp"
Threads == Workers \cup {Compactor}
NoThread == "none"

Oids == 1..MaxOid
Payloads == 1..NPayloads
Sizes == 1..MaxSize
\* the chunk that is modelled, and a chunk id that is not in s.chunks
TheChunk == 1
ChunkIds == {TheChunk, TinyChunkCount + 1}

VARIABLES
    chunk,        \* the Chunk: data file, index tree, index file, lastOid
    compactLock,  \* holder of Chunk.compactLock, or NoThread
    commitLock,   \* Chunk.commitLock: [w |-> exclusive holder, r |-> readers]
    compact,      \* the sibling files and tree built by doCompact
    pc,           \* where each thread is in its current call
    arg,          \* the arguments of each thread's current call
    ret,          \* the call that returned last: who, what, and the results
    nOps,         \* calls started so far
    written,      \* history: per oid, the Write that succeeded and was not deleted or compacted since
    markDeleted,  \* history: the oids for which MarkDelete has returned success
    availChunkCh,   \* BlobStore.availChunkCh: the ids buffered in the channel
    unavailChunkCh, \* BlobStore.unavailChunkCh
    held,         \* the ids that workers received and have not sent back
    qpc,          \* where each queue worker is in its current call
    qarg,         \* the locals of each queue worker's current call
    qret,         \* the queue call that returned last
    qOps,         \* queue calls started so far
    repair,       \* the follower's stream repair of the chunk, and its leader
    metas,        \* a call that gathers the watermarks of one replica
    leaderSync,   \* the leader's syncData call that answers a repair read
    mp            \* a metaPartition: its inode tree and its free list

storeVars == <<chunk, compactLock, commitLock, compact, pc, arg, ret, nOps,
               written, markDeleted>>
queueVars == <<availChunkCh, unavailChunkCh, held, qpc, qarg, qret, qOps>>
repairVars == <<repair, metas, leaderSync, mp>>
\* what the repair of the follower leaves alone, and what the gathering of
\* watermarks leaves alone
notRepair == <<metas, leaderSync, mp>>
notMetas == <<repair, leaderSync, mp>>
notSync == <<repair, metas, mp>>
notMp == <<repair, metas, leaderSync>>
vars == <<storeVars, queueVars, repairVars>>

(***************************************************************************)
(* The data file: a sequence of slices <<d, from, to>>, each the bytes     *)
(* from..to-1 of one payload d.  Write appends data[:size], the slice      *)
(* <<d, 0, size>>; a byte range of the file is the sequence of slices      *)
(* that cover it.                                                          *)
(***************************************************************************)
SliceLen(s) == s[3] - s[2]

RECURSIVE FileSize(_)
FileSize(f) == IF f = <<>> THEN 0 ELSE SliceLen(Head(f)) + FileSize(Tail(f))

\* data[:size] of payload d
Prefix(d, size) == IF size = 0 THEN <<>> ELSE << <<d, 0, size>> >>

\* file.WriteAt(bytes, EOF)
WriteAt(f, bytes) == f \o bytes

Max(a, b) == IF a > b THEN a ELSE b
Min(a, b) == IF a < b THEN a ELSE b

\* the bytes [off, off+size) of the file whose first slice starts at byte pos
RECURSIVE ReadRange(_, _, _, _)
ReadRange(f, pos, off, size) ==
    IF f = <<>> \/ size = 0 THEN <<>>
    ELSE LET s == Head(f)
             lo == Max(off, pos)
             hi == Min(off + size, pos + SliceLen(s))
             rest == ReadRange(Tail(f), pos + SliceLen(s), off, size)
         IN IF lo < hi
            THEN << <<s[1], s[2] + (lo - pos), s[2] + (hi - pos)>> >> \o rest
            ELSE rest

\* file.ReadAt(buf[:size], off)
ReadAt(f, off, size) == ReadRange(f, 0, off, size)

\* crc32.ChecksumIEEE of a byte range: a hash, many ranges to one value
CrcMod == 2
RECURSIVE ChecksumIEEE(_)
ChecksumIEEE(bytes) ==
    IF bytes = <<>> THEN 0
    ELSE (7 * Head(bytes)[1] + 5 * Head(bytes)[2] + 3 * Head(bytes)[3]
            + 2 * ChecksumIEEE(Tail(bytes))) % CrcMod
Crcs == 0..(CrcMod - 1)

(***************************************************************************)
(* The index tree of a chunk                                               *)
(***************************************************************************)
Object(oid, offset, size, crc) ==
    [oid |-> oid, offset |-> offset, size |-> size, crc |-> crc]

EmptyTree == [o \in {} |-> Object(0, 0, 0, 0)]

\* appended is history: the largest oid ever appended to the index file
NewChunk == [file |-> <<>>, tree |-> EmptyTree, idx |-> <<>>, lastOid |-> 0,
             fileBytes |-> 0, deleteBytes |-> 0, appended |-> 0]

\* the live size an entry for oid shadows when it is replaced
ShadowedSize(tree, oid) ==
    IF oid \in DOMAIN tree /\ tree[oid].size # TombstoneFileSize
    THEN tree[oid].size ELSE 0

appendToIdxFile(c, o) ==
    [c EXCEPT !.idx = Append(@, o),
              !.appended = IF o.oid > @ THEN o.oid ELSE @]

TreePut(tree, o) ==
    [x \in DOMAIN tree \cup {o.oid} |-> IF x = o.oid THEN o ELSE tree[x]]

\* tree.set: insert or overwrite the entry, append it to the index file
TreeSet(c, oid, offset, size, crc) ==
    LET o == Object(oid, offset, size, crc)
    IN [appendToIdxFile(c, o) EXCEPT
          !.tree = TreePut(c.tree, o),
          !.deleteBytes = @ + ShadowedSize(c.tree, oid),
          !.fileBytes = IF size = TombstoneFileSize THEN @ ELSE @ + size]

\* tree.get: the entry, or nothing when absent or a tombstone
TreeGet(c, oid) ==
    IF oid \in DOMAIN c.tree /\ c.tree[oid].size # TombstoneFileSize
    THEN <<c.tree[oid]>> ELSE <<>>

\* tree.delete: the error it returns
TreeDeleteErr(c, oid) ==
    IF oid \in DOMAIN c.tree THEN "OK" ELSE "ErrorObjNotFound"

\* tree.delete: turn the existing entry into a tombstone and persist it
TreeDelete(c, oid) ==
    IF oid \in DOMAIN c.tree
    THEN TreeSet(c, oid, 0, TombstoneFileSize, 0)
    ELSE c

storeLastOid(c, oid) == [c EXCEPT !.lastOid = oid]

\* smallest element of a non-empty set of oids
MinOf(S) == CHOOSE x \in S : \A y \in S : x <= y

(***************************************************************************)
(* Locks.  compactLock is a try-lock; commitLock is a reader-writer lock.  *)
(***************************************************************************)
TryLock(lock) == lock = NoThread
FreeCommitLock == [w |-> NoThread, r |-> {}]
CanRLock(l) == l.w = NoThread
CanLock(l) == l.w = NoThread /\ l.r = {}

(***************************************************************************)
(* Calls and results                                                       *)
(***************************************************************************)
\* objects is the list GetDelObjects builds; len0 is history: the length of
\* the index file when GetDelObjects was called
NoArg == [op |-> "none", oid |-> 0, size |-> 0, d |-> 0, crc |-> 0, off |-> 0,
          objects |-> <<>>, len0 |-> 0]
Call(op, oid, size, d, crc) ==
    [NoArg EXCEPT !.op = op, !.oid = oid, !.size = size, !.d = d, !.crc = crc]

\* cid and size are the chunk id and size a Read was called with; objects
\* is the list GetDelObjects returned
NoRet == [t |-> NoThread, op |-> "none", err |-> "OK", oid |-> 0, buf |-> <<>>,
          crc |-> 0, released |-> 0, cid |-> 0, size |-> 0, objects |-> <<>>]
Ret(op, err, oid) == [NoRet EXCEPT !.op = op, !.err = err, !.oid = oid]
\* thread t returns r
By(t, r) == [r EXCEPT !.t = t]

\* s.chunks[chunkId] exists
chunkExists(cid) == cid = TheChunk

(***************************************************************************)
(* BlobStore.Write                                                         *)
(***************************************************************************)
\* a Write that does not look at the compact lock
WriteLockIgnored(lock) == FALSE

\* line 145: the compact lock is busy, the call returns ErrorAgain
WriteLockBusy(lock) == ~TryLock(lock)

\* line 150: the stale-oid test
WriteRejects(c, objectId) == objectId < c.lastOid

\* lines 157-164: newOffset := fi.Size(); file.WriteAt(data[:size], newOffset)
WriteData(c, d, size) == [c EXCEPT !.file = WriteAt(@, Prefix(d, size))]

\* a Write that takes the file's size after its WriteAt as the offset
WriteIndexAtNewEnd(c, objectId, newOffset, size, crc) ==
    LET c2 == TreeSet(c, objectId, (newOffset + size) % U32, size % U32, crc)
    IN IF c2.lastOid < objectId THEN storeLastOid(c2, objectId) ELSE c2

\* lines 166-170: tree.set with the 32-bit offset and size, then the watermark
WriteIndex(c, objectId, newOffset, size, crc) ==
    LET c2 == TreeSet(c, objectId, newOffset % U32, size % U32, crc)
    IN IF c2.lastOid < objectId THEN storeLastOid(c2, objectId) ELSE c2

\* Write run to completion by one caller that holds the lock: [c, err]
WriteAll(c, objectId, size, d, crc) ==
    IF WriteRejects(c, objectId) THEN [c |-> c, err |-> "ErrObjectSmaller"]
    ELSE [c |-> WriteIndex(WriteData(c, d, size), objectId, FileSize(c.file),
                           size, crc),
          err |-> "OK"]

\* history: a successful Write of an oid not yet recorded is recorded
Recorded(w, oid, size, d, crc) ==
    IF w[oid] = <<>>
    THEN [w EXCEPT ![oid] = <<[size |-> size, d |-> d, crc |-> crc]>>]
    ELSE w
NoneWritten == [o \in Oids |-> <<>>]

WriteCall(t, cid, oid, size, d, crc) ==
    /\ pc[t] = "idle"
    /\ UNCHANGED <<queueVars, repairVars>>
    /\ nOps < MaxOps
    /\ nOps' = nOps + 1
    /\ UNCHANGED <<chunk, commitLock, compact, written, markDeleted>>
    /\ IF ~chunkExists(cid)
       THEN /\ ret' = By(t, Ret("Write", "ErrorFileNotFound", oid))
            /\ UNCHANGED <<compactLock, pc, arg>>
       ELSE IF WriteLockBusy(compactLock)
       THEN /\ ret' = By(t, Ret("Write", "ErrorAgain", oid))
            /\ UNCHANGED <<compactLock, pc, arg>>
       ELSE IF WriteRejects(chunk, oid)
       THEN /\ ret' = By(t, Ret("Write", "ErrObjectSmaller", oid))
            /\ UNCHANGED <<compactLock, pc, arg>>
       ELSE /\ compactLock' = t
            /\ pc' = [pc EXCEPT ![t] = "w_data"]
            /\ arg' = [arg EXCEPT ![t] = Call("Write", oid, size, d, crc)]
            /\ ret' = NoRet

\* fi.Stat and file.WriteAt; either may fail with an I/O error
WriteAppend(t) ==
    /\ pc[t] = "w_data"
    /\ UNCHANGED <<queueVars, repairVars>>
    /\ UNCHANGED <<commitLock, compact, nOps, written, markDeleted>>
    /\ \E ok \in BOOLEAN :
         IF ok
         THEN /\ chunk' = WriteData(chunk, arg[t].d, arg[t].size)
              /\ arg' = [arg EXCEPT ![t].off = FileSize(chunk.file)]
              /\ pc' = [pc EXCEPT ![t] = "w_index"]
              /\ UNCHANGED <<compactLock, ret>>
         ELSE /\ ret' = By(t, Ret("Write", "IOError", arg[t].oid))
              /\ compactLock' = NoThread
              /\ pc' = [pc EXCEPT ![t] = "idle"]
              /\ arg' = [arg EXCEPT ![t] = NoArg]
              /\ UNCHANGED chunk

WriteDone(t) ==
    /\ pc[t] = "w_index"
    /\ UNCHANGED <<queueVars, repairVars>>
    /\ chunk' = WriteIndex(chunk, arg[t].oid, arg[t].off, arg[t].size, arg[t].crc)
    /\ compactLock' = NoThread
    /\ ret' = By(t, Ret("Write", "OK", arg[t].oid))
    /\ pc' = [pc EXCEPT ![t] = "idle"]
    /\ arg' = [arg EXCEPT ![t] = NoArg]
    /\ written' = Recorded(written, arg[t].oid, arg[t].size, arg[t].d, arg[t].crc)
    /\ UNCHANGED <<commitLock, compact, nOps, markDeleted>>

(***************************************************************************)
(* BlobStore.WriteDeleteDentry                                             *)
(***************************************************************************)
\* a WriteDeleteDentry that appends its record and leaves the watermark
WriteDeleteDentryNoWatermark(c, objectId, crc) ==
    appendToIdxFile(c, Object(objectId, FileSize(c.file) % U32,
                              TombstoneFileSize, crc))

\* lines 122-130: a tombstone record at the data file's size, index file only
WriteDeleteDentryAll(c, objectId, crc) ==
    LET o == Object(objectId, FileSize(c.file) % U32, TombstoneFileSize, crc)
        c2 == appendToIdxFile(c, o)
    IN IF c2.lastOid < objectId THEN storeLastOid(c2, objectId) ELSE c2

WriteDeleteDentry(t, cid, oid, crc) ==
    /\ pc[t] = "idle"
    /\ UNCHANGED <<queueVars, repairVars>>
    /\ nOps < MaxOps
    /\ nOps' = nOps + 1
    /\ UNCHANGED <<compactLock, commitLock, compact, pc, arg, markDeleted>>
    /\ IF ~chunkExists(cid)
       THEN /\ ret' = By(t, Ret("WriteDeleteDentry", "ErrorFileNotFound", oid))
            /\ UNCHANGED <<chunk, written>>
       ELSE IF WriteLockBusy(compactLock)
       THEN /\ ret' = By(t, Ret("WriteDeleteDentry", "ErrorAgain", oid))
            /\ UNCHANGED <<chunk, written>>
       ELSE /\ chunk' = WriteDeleteDentryAll(chunk, oid, crc)
            /\ ret' = By(t, Ret("WriteDeleteDentry", "OK", oid))
            /\ written' = NoneWritten


(***************************************************************************)
(* BlobStore.Read, BlobStore.GetObject                                     *)
(***************************************************************************)
\* lines 182-185: an oid above the watermark
ReadAboveLastOid(c, objectId) == c.lastOid < objectId

\* lines 190-209, under the shared commit lock
ReadBody(c, objectId, size) ==
    LET o == TreeGet(c, objectId)
    IN IF o = <<>> THEN Ret("Read", "ErrorObjNotFound", objectId)
       ELSE IF o[1].size # size \/ o[1].offset + size > FileSize(c.file)
       THEN Ret("Read", "ErrorParamMismatch", objectId)
       ELSE [Ret("Read", "OK", objectId) EXCEPT
               !.buf = ReadAt(c.file, o[1].offset, size), !.crc = o[1].crc]

\* what Read returns when it runs on chunk state c
ReadAll(c, objectId, size) ==
    IF ReadAboveLastOid(c, objectId)
    THEN Ret("Read", "ErrorFileNotFound", objectId)
    ELSE ReadBody(c, objectId, size)

ReadCall(t, cid, oid, size) ==
    /\ pc[t] = "idle"
    /\ UNCHANGED <<queueVars, repairVars>>
    /\ nOps < MaxOps
    /\ nOps' = nOps + 1
    /\ UNCHANGED <<chunk, compactLock, compact, written, markDeleted>>
    /\ IF ~chunkExists(cid) \/ ReadAboveLastOid(chunk, oid)
       THEN /\ ret' = By(t, [Ret("Read", "ErrorFileNotFound", oid) EXCEPT
                                !.cid = cid, !.size = size])
            /\ UNCHANGED <<commitLock, pc, arg>>
       ELSE /\ CanRLock(commitLock)
            /\ commitLock' = [commitLock EXCEPT !.r = @ \cup {t}]
            /\ pc' = [pc EXCEPT ![t] = "r_body"]
            /\ arg' = [arg EXCEPT ![t] = Call("Read", oid, size, 0, 0)]
            /\ ret' = NoRet

ReadDone(t) ==
    /\ pc[t] = "r_body"
    /\ UNCHANGED <<queueVars, repairVars>>
    /\ ret' = By(t, [ReadBody(chunk, arg[t].oid, arg[t].size) EXCEPT
                       !.cid = TheChunk, !.size = arg[t].size])
    /\ commitLock' = [commitLock EXCEPT !.r = @ \ {t}]
    /\ pc' = [pc EXCEPT ![t] = "idle"]
    /\ arg' = [arg EXCEPT ![t] = NoArg]
    /\ UNCHANGED <<chunk, compactLock, compact, nOps, written, markDeleted>>

\* lines 345-357
GetObjectAll(c, objectId) ==
    LET o == TreeGet(c, objectId)
    IN IF o = <<>> THEN Ret("GetObject", "ErrorObjNotFound", objectId)
       ELSE [Ret("GetObject", "OK", objectId) EXCEPT !.crc = o[1].crc]

GetObject(t, cid, oid) ==
    /\ pc[t] = "idle"
    /\ UNCHANGED <<queueVars, repairVars>>
    /\ nOps < MaxOps
    /\ nOps' = nOps + 1
    /\ ret' = By(t, IF chunkExists(cid) THEN GetObjectAll(chunk, oid)
                 ELSE Ret("GetObject", "ErrorFileNotFound", oid))
    /\ UNCHANGED <<chunk, compactLock, commitLock, compact, pc, arg, written,
                   markDeleted>>

(***************************************************************************)
(* BlobStore.MarkDelete                                                    *)
(***************************************************************************)
\* the locks MarkDelete needs before it mutates the tree (lines 314-315)
MarkDeleteCanLock(compactL, commitL) == CanRLock(commitL)

\* line 316
MarkDeleteAll(c, objectId) == TreeDelete(c, objectId)

MarkDeleteCall(t, cid, oid) ==
    /\ pc[t] = "idle"
    /\ UNCHANGED <<queueVars, repairVars>>
    /\ nOps < MaxOps
    /\ nOps' = nOps + 1
    /\ UNCHANGED <<chunk, compactLock, compact, written, markDeleted>>
    /\ IF ~chunkExists(cid)
       THEN /\ ret' = By(t, Ret("MarkDelete", "ErrorFileNotFound", oid))
            /\ UNCHANGED <<commitLock, pc, arg>>
       ELSE /\ MarkDeleteCanLock(compactLock, commitLock)
            /\ commitLock' = [commitLock EXCEPT !.r = @ \cup {t}]
            /\ pc' = [pc EXCEPT ![t] = "d_body"]
            /\ arg' = [arg EXCEPT ![t] = Call("MarkDelete", oid, 0, 0, 0)]
            /\ ret' = NoRet

MarkDeleteDone(t) ==
    /\ pc[t] = "d_body"
    /\ UNCHANGED <<queueVars, repairVars>>
    /\ chunk' = MarkDeleteAll(chunk, arg[t].oid)
    /\ ret' = By(t, Ret("MarkDelete", TreeDeleteErr(chunk, arg[t].oid), arg[t].oid))
    /\ commitLock' = [commitLock EXCEPT !.r = @ \ {t}]
    /\ pc' = [pc EXCEPT ![t] = "idle"]
    /\ arg' = [arg EXCEPT ![t] = NoArg]
    /\ written' = NoneWritten
    /\ markDeleted' = IF TreeDeleteErr(chunk, arg[t].oid) = "OK"
                      THEN markDeleted \cup {arg[t].oid} ELSE markDeleted
    /\ UNCHANGED <<compactLock, compact, nOps>>

(***************************************************************************)
(* BlobStore.GetDelObjects                                                 *)
(***************************************************************************)
\* lines 361-367: the lookup of the chunk and the sample of its watermark
GetDelObjectsCall(t, cid) ==
    /\ pc[t] = "idle"
    /\ UNCHANGED <<queueVars, repairVars>>
    /\ nOps < MaxOps
    /\ nOps' = nOps + 1
    /\ UNCHANGED <<chunk, compactLock, commitLock, compact, written,
                   markDeleted>>
    /\ IF ~chunkExists(cid)
       THEN /\ ret' = By(t, Ret("GetDelObjects", "OK", 0))
            /\ UNCHANGED <<pc, arg>>
       ELSE /\ pc' = [pc EXCEPT ![t] = "g_lock"]
            /\ arg' = [arg EXCEPT
                         ![t] = [Call("GetDelObjects", chunk.lastOid, 0, 0, 0)
                                   EXCEPT !.len0 = Len(chunk.idx)]]
            /\ ret' = NoRet

\* line 369
GetDelObjectsLock(t) ==
    /\ pc[t] = "g_lock"
    /\ CanRLock(commitLock)
    /\ commitLock' = [commitLock EXCEPT !.r = @ \cup {t}]
    /\ pc' = [pc EXCEPT ![t] = "g_walk"]
    /\ UNCHANGED <<chunk, compactLock, compact, arg, ret, nOps, written,
                   markDeleted, queueVars, repairVars>>

\* lines 371-376: what the callback does with one record of the index file
\* (arg.oid is syncLastOid)
GetDelObjectsVisit(a, o) ==
    IF o.size = TombstoneFileSize
    THEN [a EXCEPT !.objects = Append(@, o.oid)]
    ELSE a

\* lines 370-378: WalkIndexFile reads the next record of the index file,
\* and ends at the end of the file or when the callback returns its error
GetDelObjectsWalk(t) ==
    /\ pc[t] = "g_walk"
    /\ LET i == arg[t].off + 1
       IN IF i > Len(chunk.idx) \/ chunk.idx[i].oid > arg[t].oid
          THEN /\ pc' = [pc EXCEPT ![t] = "g_done"]
               /\ UNCHANGED arg
          ELSE /\ arg' = [arg EXCEPT
                            ![t] = [GetDelObjectsVisit(arg[t], chunk.idx[i])
                                      EXCEPT !.off = i]]
               /\ UNCHANGED pc
    /\ UNCHANGED <<chunk, compactLock, commitLock, compact, ret, nOps,
                   written, markDeleted, queueVars, repairVars>>

\* lines 379-381
GetDelObjectsDone(t) ==
    /\ pc[t] = "g_done"
    /\ commitLock' = [commitLock EXCEPT !.r = @ \ {t}]
    /\ ret' = By(t, [Ret("GetDelObjects", "OK", arg[t].oid)
                       EXCEPT !.objects = arg[t].objects])
    /\ pc' = [pc EXCEPT ![t] = "idle"]
    /\ arg' = [arg EXCEPT ![t] = NoArg]
    /\ UNCHANGED <<chunk, compactLock, compact, nOps, written, markDeleted,
                   queueVars, repairVars>>

(***************************************************************************)
(* Compaction: BlobStore.DoCompactWork, doCompactAndCommit                 *)
(***************************************************************************)
\* snap is history: the chunk as doCompactAndCommit found it
NoCompact == [file |-> <<>>, tree |-> EmptyTree, idx |-> <<>>, before |-> 0,
              ok |-> TRUE, snap |-> NewChunk]

\* doCompact: walk the tree in ascending oid order and copy each live record
\* to the sibling data file and index; tombstones are dropped
RECURSIVE CopyLive(_, _, _)
CopyLive(c, todo, acc) ==
    IF todo = {} THEN acc
    ELSE LET oid == MinOf(todo)
             o == c.tree[oid]
             bytes == ReadAt(c.file, o.offset, o.size)
             n == Object(oid, FileSize(acc.file) % U32, o.size, o.crc)
         IN IF o.size = TombstoneFileSize
            THEN CopyLive(c, todo \ {oid}, acc)
            ELSE CopyLive(c, todo \ {oid},
                   [acc EXCEPT !.file = WriteAt(@, bytes),
                               !.tree = TreePut(@, n),
                               !.idx = Append(@, n),
                               !.ok = @ /\ o.offset + o.size <= FileSize(c.file)])

doCompact(c) == CopyLive(c, DOMAIN c.tree, NoCompact)

RECURSIVE SumSizes(_, _)
SumSizes(tree, todo) ==
    IF todo = {} THEN 0
    ELSE LET oid == MinOf(todo) IN tree[oid].size + SumSizes(tree, todo \ {oid})

\* doCommit: the sibling files and the new tree replace the old ones
doCommit(c, n) ==
    [c EXCEPT !.file = n.file, !.tree = n.tree, !.idx = n.idx,
              !.fileBytes = SumSizes(n.tree, DOMAIN n.tree), !.deleteBytes = 0]

\* lines 449-454: TryLockTimed got the lock
CompactStart ==
    /\ pc[Compactor] = "idle"
    /\ UNCHANGED <<queueVars, repairVars>>
    /\ nOps < MaxOps
    /\ nOps' = nOps + 1
    /\ TryLock(compactLock)
    /\ compactLock' = Compactor
    /\ compact' = [NoCompact EXCEPT !.before = chunk.fileBytes,
                                    !.snap = chunk]
    /\ pc' = [pc EXCEPT ![Compactor] = "c_rebuild"]
    /\ ret' = NoRet
    /\ written' = NoneWritten
    /\ UNCHANGED <<chunk, commitLock, arg, markDeleted>>

\* lines 418-428: what DoCompactWork returns when doCompactAndCommit gave
\* (err, released): on success it syncs the chunk's files (lines 212-225),
\* which may fail with an I/O error
DoCompactWorkReturns(err, released, syncOk) ==
    IF err # "OK" THEN Ret("DoCompactWork", err, 0)
    ELSE IF ~syncOk THEN Ret("DoCompactWork", "IOError", 0)
    ELSE [Ret("DoCompactWork", "OK", 0) EXCEPT !.released = released]

\* a timeout that runs the deferred Unlock of a lock it does not hold
CompactTimeoutUnlocks(lock) == NoThread

\* lines 450-452: the return comes before the Unlock is deferred, the lock
\* stays with its holder
CompactTimeoutLock(lock) == lock

\* lines 449-451: TryLockTimed ran out of time while a writer held the lock
CompactTimeout ==
    /\ pc[Compactor] = "idle"
    /\ UNCHANGED <<queueVars, repairVars>>
    /\ nOps < MaxOps
    /\ nOps' = nOps + 1
    /\ ~TryLock(compactLock)
    /\ compactLock' = CompactTimeoutLock(compactLock)
    /\ \E syncOk \in BOOLEAN :
         ret' = By(Compactor, DoCompactWorkReturns("OK", 0, syncOk))
    /\ UNCHANGED <<chunk, commitLock, compact, pc, arg, written, markDeleted>>

\* a doCompactAndCommit that returns with compactLock still taken
CompactKeepsLock(lock) == lock

\* the lock doCompactAndCommit holds after it returns (line 452, deferred)
CompactUnlock(lock) == NoThread

\* lines 455-457: the rebuild phase
CompactRebuild ==
    /\ pc[Compactor] = "c_rebuild"
    /\ UNCHANGED <<queueVars, repairVars>>
    /\ UNCHANGED <<chunk, commitLock, arg, nOps, written, markDeleted>>
    /\ \E io \in BOOLEAN :
         LET n == doCompact(chunk) IN
         IF io /\ n.ok
         THEN /\ compact' = [n EXCEPT !.before = compact.before,
                                      !.snap = compact.snap]
              /\ pc' = [pc EXCEPT ![Compactor] = "c_lock"]
              /\ UNCHANGED <<compactLock, ret>>
         ELSE /\ compact' = NoCompact
              /\ compactLock' = CompactUnlock(compactLock)
              /\ pc' = [pc EXCEPT ![Compactor] = "idle"]
              /\ ret' = By(Compactor, Ret("DoCompactWork", "ErrorCompaction", 0))

\* line 459: commitLock.Lock waits for the readers to leave
CompactCommitLock ==
    /\ pc[Compactor] = "c_lock"
    /\ UNCHANGED <<queueVars, repairVars>>
    /\ CanLock(commitLock)
    /\ commitLock' = [commitLock EXCEPT !.w = Compactor]
    /\ pc' = [pc EXCEPT ![Compactor] = "c_commit"]
    /\ UNCHANGED <<chunk, compactLock, compact, arg, ret, nOps, written,
                   markDeleted>>

\* lines 462-469 and the deferred unlocks; then DoCompactWork's Sync
CompactCommit ==
    /\ pc[Compactor] = "c_commit"
    /\ UNCHANGED <<queueVars, repairVars>>
    /\ commitLock' = FreeCommitLock
    /\ compactLock' = CompactUnlock(compactLock)
    /\ compact' = NoCompact
    /\ pc' = [pc EXCEPT ![Compactor] = "idle"]
    /\ UNCHANGED <<arg, nOps, written, markDeleted>>
    /\ \E io \in BOOLEAN :
         IF io
         THEN /\ chunk' = doCommit(chunk, compact)
              /\ \E syncOk \in BOOLEAN :
                   ret' = By(Compactor,
                             DoCompactWorkReturns("OK",
                                 compact.before - chunk'.fileBytes, syncOk))
         ELSE /\ UNCHANGED chunk
              /\ ret' = By(Compactor,
                           DoCompactWorkReturns("ErrorCommit", 0, TRUE))

(***************************************************************************)
(* The chunk-id queues: two buffered channels of capacity                  *)
(* TinyChunkCount + 1.  A receive in a select with a default never waits;  *)
(* a plain send waits until the channel has room.                          *)
(***************************************************************************)
QWorkers == {"q1", "q2"}
ChanCap == TinyChunkCount + 1
AllChunkIds == 1..TinyChunkCount

\* lines 64-68: the channels as NewBlobStore leaves them
NewAvailChunkCh == <<>>
NewUnavailChunkCh == [i \in 1..TinyChunkCount |-> i]

\* ch <- id can proceed
CanSend(ch) == Len(ch) < ChanCap

QNoArg == [id |-> 0, i |-> 0, chLen |-> 0]
QNoRet == [t |-> NoThread, op |-> "none", id |-> 0, err |-> "OK"]
QRet(t, op, id, err) == [t |-> t, op |-> op, id |-> id, err |-> err]

\* lines 248-256
GetAvailChunk(w) ==
    /\ qpc[w] = "idle"
    /\ UNCHANGED <<storeVars, repairVars, unavailChunkCh, qpc, qarg>>
    /\ IF availChunkCh # <<>>
       THEN /\ availChunkCh' = Tail(availChunkCh)
            /\ held' = held \cup {Head(availChunkCh)}
            /\ qret' = QRet(w, "GetAvailChunk", Head(availChunkCh), "OK")
            /\ UNCHANGED qOps
       ELSE /\ qOps < MaxQueueOps
            /\ qOps' = qOps + 1
            /\ qret' = QRet(w, "GetAvailChunk", 0, "ErrorNoAvaliFile")
            /\ UNCHANGED <<availChunkCh, held>>

\* lines 289-297
GetUnAvailChunk(w) ==
    /\ qpc[w] = "idle"
    /\ UNCHANGED <<storeVars, repairVars, availChunkCh, qpc, qarg>>
    /\ IF unavailChunkCh # <<>>
       THEN /\ unavailChunkCh' = Tail(unavailChunkCh)
            /\ held' = held \cup {Head(unavailChunkCh)}
            /\ qret' = QRet(w, "GetUnAvailChunk", Head(unavailChunkCh), "OK")
            /\ UNCHANGED qOps
       ELSE /\ qOps < MaxQueueOps
            /\ qOps' = qOps + 1
            /\ qret' = QRet(w, "GetUnAvailChunk", 0, "ErrorNoUnAvaliFile")
            /\ UNCHANGED <<unavailChunkCh, held>>

\* lines 259-260, 269: with chLen = 0 the loop body never runs and the
\* named results (chunkId = 0, err = nil) are returned as they are
GetChunkForWriteEmpty(chLen) == QRet(NoThread, "GetChunkForWrite", 0, "OK")

GetChunkForWriteCall(w) ==
    /\ qpc[w] = "idle"
    /\ qOps < MaxQueueOps
    /\ qOps' = qOps + 1
    /\ UNCHANGED <<storeVars, repairVars, availChunkCh, unavailChunkCh, held>>
    /\ IF Len(availChunkCh) = 0
       THEN /\ qret' = [GetChunkForWriteEmpty(Len(availChunkCh)) EXCEPT !.t = w]
            /\ UNCHANGED <<qpc, qarg>>
       ELSE /\ qpc' = [qpc EXCEPT ![w] = "gw_select"]
            /\ qarg' = [qarg EXCEPT ![w] = [QNoArg EXCEPT !.chLen = Len(availChunkCh)]]
            /\ qret' = QNoRet

\* lines 261-266: the first pass of the loop returns either way
GetChunkForWriteSelect(w) ==
    /\ qpc[w] = "gw_select"
    /\ qpc' = [qpc EXCEPT ![w] = "idle"]
    /\ qarg' = [qarg EXCEPT ![w] = QNoArg]
    /\ UNCHANGED <<storeVars, repairVars, unavailChunkCh, qOps>>
    /\ IF availChunkCh # <<>>
       THEN /\ availChunkCh' = Tail(availChunkCh)
            /\ held' = held \cup {Head(availChunkCh)}
            /\ qret' = QRet(w, "GetChunkForWrite", Head(availChunkCh), "OK")
       ELSE /\ qret' = QRet(w, "GetChunkForWrite", -1, "ErrorNoAvaliFile")
            /\ UNCHANGED <<availChunkCh, held>>

\* the ids a worker may pass to PutAvailChunk and PutUnAvailChunk: those it
\* took and, for a caller under no discipline, a chunk id it did not take
PutIds(w, any) == IF any THEN held \cup {TheChunk} ELSE held

\* line 286, up to the send
PutAvailChunkCall(w, id, any) ==
    /\ qpc[w] = "idle"
    /\ qOps < MaxQueueOps
    /\ qOps' = qOps + 1
    /\ id \in PutIds(w, any)
    /\ held' = held \ {id}
    /\ qpc' = [qpc EXCEPT ![w] = "send_avail"]
    /\ qarg' = [qarg EXCEPT ![w] = [QNoArg EXCEPT !.id = id]]
    /\ qret' = QNoRet
    /\ UNCHANGED <<storeVars, repairVars, availChunkCh, unavailChunkCh>>

\* line 286: s.availChunkCh <- chunkId
PutAvailChunkSend(w) ==
    /\ qpc[w] = "send_avail"
    /\ CanSend(availChunkCh)
    /\ availChunkCh' = Append(availChunkCh, qarg[w].id)
    /\ qpc' = [qpc EXCEPT ![w] = "idle"]
    /\ qarg' = [qarg EXCEPT ![w] = QNoArg]
    /\ qret' = QRet(w, "PutAvailChunk", qarg[w].id, "OK")
    /\ UNCHANGED <<storeVars, repairVars, unavailChunkCh, held, qOps>>

\* line 300, up to the send
PutUnAvailChunkCall(w, id, any) ==
    /\ qpc[w] = "idle"
    /\ qOps < MaxQueueOps
    /\ qOps' = qOps + 1
    /\ id \in PutIds(w, any)
    /\ held' = held \ {id}
    /\ qpc' = [qpc EXCEPT ![w] = "send_unavail"]
    /\ qarg' = [qarg EXCEPT ![w] = [QNoArg EXCEPT !.id = id]]
    /\ qret' = QNoRet
    /\ UNCHANGED <<storeVars, repairVars, availChunkCh, unavailChunkCh>>

\* line 300: s.unavailChunkCh <- chunkId
PutUnAvailChunkSend(w) ==
    /\ qpc[w] = "send_unavail"
    /\ CanSend(unavailChunkCh)
    /\ unavailChunkCh' = Append(unavailChunkCh, qarg[w].id)
    /\ qpc' = [qpc EXCEPT ![w] = "idle"]
    /\ qarg' = [qarg EXCEPT ![w] = QNoArg]
    /\ qret' = QRet(w, "PutUnAvailChunk", qarg[w].id, "OK")
    /\ UNCHANGED <<storeVars, repairVars, availChunkCh, held, qOps>>

\* line 433: nothing to do when the unavailable queue holds two or more
MoveSkips(unavail) == Len(unavail) >= 2

\* line 436: the number of chunks one call moves at most
MoveCount == 2

\* lines 433-435
MoveChunkToUnavailChanCall(w) ==
    /\ qpc[w] = "idle"
    /\ qOps < MaxQueueOps
    /\ qOps' = qOps + 1
    /\ UNCHANGED <<storeVars, repairVars, availChunkCh, unavailChunkCh, held>>
    /\ IF MoveSkips(unavailChunkCh)
       THEN /\ qret' = QRet(w, "MoveChunkToUnavailChan", 0, "OK")
            /\ UNCHANGED <<qpc, qarg>>
       ELSE /\ qpc' = [qpc EXCEPT ![w] = "mv_recv"]
            /\ qarg' = [qarg EXCEPT ![w] = QNoArg]
            /\ qret' = QNoRet

\* a mover that sends its loop counter instead of the id it received
MoveSendsCounter(id, i) == i

\* line 439: the value the mover sends is the chunk id it received
MoveSends(id, i) == id

\* lines 437-442: the select of one pass of the loop
MoveChunkToUnavailChanRecv(w) ==
    /\ qpc[w] = "mv_recv"
    /\ UNCHANGED <<storeVars, repairVars, unavailChunkCh, held, qOps>>
    /\ IF availChunkCh # <<>>
       THEN /\ availChunkCh' = Tail(availChunkCh)
            /\ qpc' = [qpc EXCEPT ![w] = "mv_send"]
            /\ qarg' = [qarg EXCEPT ![w].id = Head(availChunkCh)]
            /\ UNCHANGED qret
       ELSE /\ qpc' = [qpc EXCEPT ![w] = "idle"]
            /\ qarg' = [qarg EXCEPT ![w] = QNoArg]
            /\ qret' = QRet(w, "MoveChunkToUnavailChan", 0, "OK")
            /\ UNCHANGED availChunkCh

\* line 439: s.unavailChunkCh <- chunkId, then the next pass or the return
MoveChunkToUnavailChanSend(w) ==
    /\ qpc[w] = "mv_send"
    /\ CanSend(unavailChunkCh)
    /\ unavailChunkCh' = Append(unavailChunkCh, MoveSends(qarg[w].id, qarg[w].i))
    /\ UNCHANGED <<storeVars, repairVars, availChunkCh, held, qOps>>
    /\ IF qarg[w].i + 1 < MoveCount
       THEN /\ qpc' = [qpc EXCEPT ![w] = "mv_recv"]
            /\ qarg' = [qarg EXCEPT ![w] = [QNoArg EXCEPT !.i = qarg[w].i + 1]]
            /\ UNCHANGED qret
       ELSE /\ qpc' = [qpc EXCEPT ![w] = "idle"]
            /\ qarg' = [qarg EXCEPT ![w] = QNoArg]
            /\ qret' = QRet(w, "MoveChunkToUnavailChan", 0, "OK")

(***************************************************************************)
(* Stream repair of the chunk on a follower (blob_repair.go)               *)
(***************************************************************************)
\* what the leader holds for one oid: the payload written, and whether the
\* object has been deleted since
LeaderObjects == [d : Payloads, size : Sizes, deleted : BOOLEAN]

\* the leader's chunk: its object for every oid 1..lastOid
LeaderChunks == UNION {[1..n -> LeaderObjects] : n \in 1..MaxRemoteOid}

\* the object header and body the leader sends for oid: the Size of a
\* deleted object is the sentinel, and no body follows its header
RepairRecord(leader, oid) ==
    LET o == leader[oid]
    IN IF o.deleted
       THEN [oid |-> oid, size |-> TombstoneFileSize, crc |-> 0,
             d |-> o.d, body |-> 0]
       ELSE [oid |-> oid, size |-> o.size,
             crc |-> ChecksumIEEE(Prefix(o.d, o.size)),
             d |-> o.d, body |-> o.size]

\* lines 289-291: a response packet carrying the objects from..to, its
\* Offset the last oid it contains
RepairPacket(leader, from, to) ==
    [offset |-> to,
     recs |-> [i \in 1..(to - from + 1) |-> RepairRecord(leader, from + i - 1)]]

NoPacket == [offset |-> 0, recs |-> <<>>]

\* line 214: the packet as request.ReadFromConn delivers it, the crc in the
\* header of the record of oid bad no longer that of its body (bad = 0: the
\* packet arrives as the leader built it)
Received(packet, bad) ==
    [packet EXCEPT !.recs =
        [i \in DOMAIN packet.recs |->
            IF packet.recs[i].oid = bad
            THEN [packet.recs[i] EXCEPT !.crc = (@ + 1) % CrcMod]
            ELSE packet.recs[i]]]

RECURSIVE DataLen(_)
\* len(data) of a packet's records
DataLen(recs) ==
    IF recs = <<>> THEN 0
    ELSE ObjectHeaderSize + Head(recs).body + DataLen(Tail(recs))

\* errors.Annotatef of a nil error is nil
Annotatef(err) == err

\* line 221: the packet's last oid is compared with the chunk id
InvalidOffset(newLastOid, remoteFileId, remoteSize) ==
    newLastOid > remoteFileId

RECURSIVE applyLoop(_, _, _, _, _, _)
\* lines 244-285: the loop of applyRepairBlobObjects over data, from byte
\* offset on; recs are the objects of data not yet decoded.  No other
\* caller runs on the follower, so the store calls find the locks free.
\* int is 64 bits wide: int(o.Size) of a tombstone is above every dataLen.
applyLoop(c, recs, offset, applyObjectId, endObjectId, dataLen) ==
    IF offset + ObjectHeaderSize > dataLen THEN [c |-> c, err |-> "OK"]
    ELSE IF applyObjectId >= endObjectId THEN [c |-> c, err |-> "OK"]
    ELSE
      LET o == Head(recs)
          off2 == offset + ObjectHeaderSize
          c2 == IF o.size = TombstoneFileSize
                THEN WriteDeleteDentryAll(c, o.oid, o.crc) ELSE c
          err == "OK"
      IN IF off2 + o.size > dataLen THEN [c |-> c2, err |-> Annotatef(err)]
         ELSE IF ChecksumIEEE(Prefix(o.d, o.size)) # o.crc
         THEN [c |-> c2, err |-> Annotatef(err)]
         ELSE LET w == WriteAll(c2, o.oid, o.size, o.d, o.crc)
              IN IF w.err # "OK" THEN w
                 ELSE applyLoop(w.c, Tail(recs), off2 + o.size, o.oid,
                                endObjectId, dataLen)

\* lines 239-287
applyRepairBlobObjects(c, packet, endObjectId) ==
    applyLoop(c, packet.recs, 0, 0, endObjectId, DataLen(packet.recs))

NoRepair ==
    [pc |-> "off", fileId |-> 0, leader |-> <<>>, bad |-> 0, start |-> 0,
     sent |-> 0, packet |-> NoPacket, err |-> "OK"]

\* a follower that has not started its repair, for each chunk id and leader,
\* and each oid whose record may arrive damaged
RepairScenarios ==
    {[NoRepair EXCEPT !.pc = "init", !.fileId = f, !.leader = l, !.bad = b] :
        f \in ChunkIds, l \in LeaderChunks, b \in 0..MaxRemoteOid}

\* remoteBlobFileInfo.Size: the leader's watermark
RemoteSize == Len(repair.leader)

storeRest == <<compactLock, commitLock, compact, pc, arg, ret, nOps,
               written, markDeleted>>

\* before the repair: the follower receives the leader's next object by
\* the ordinary replication of a Write, and of its MarkDelete
Replicate ==
    /\ repair.pc = "init"
    /\ chunkExists(repair.fileId)
    /\ chunk.lastOid + 1 < RemoteSize
    /\ LET oid == chunk.lastOid + 1
           o == repair.leader[oid]
           w == WriteAll(chunk, oid, o.size, o.d,
                         ChecksumIEEE(Prefix(o.d, o.size)))
       IN chunk' = IF o.deleted THEN MarkDeleteAll(w.c, oid) ELSE w.c
    /\ UNCHANGED <<storeRest, queueVars, notRepair, repair>>

\* lines 178-201: the watermark read that sizes the request
RepairStart ==
    /\ repair.pc = "init"
    /\ ~chunkExists(repair.fileId) \/ chunk.lastOid < RemoteSize
    /\ repair' = IF ~chunkExists(repair.fileId)
                 THEN [repair EXCEPT !.pc = "returned",
                                     !.err = "ErrorFileNotFound"]
                 ELSE [repair EXCEPT !.pc = "loop", !.start = chunk.lastOid]
    /\ UNCHANGED <<storeVars, queueVars, notRepair>>

\* lines 202-219: re-read the watermark, stop when it has reached the
\* leader's, else read the next response packet; the leader sends the
\* objects above the follower's first watermark in order, any number to a
\* packet, and nothing after the last, so the read then meets its deadline
RepairRead ==
    /\ repair.pc = "loop"
    /\ IF chunk.lastOid >= RemoteSize
       THEN repair' = [repair EXCEPT !.pc = "returned", !.err = "OK"]
       ELSE LET from == repair.start + repair.sent + 1
            IN IF from > RemoteSize
               THEN repair' = [repair EXCEPT !.pc = "returned",
                                             !.err = "ReadFromConn"]
               ELSE \E to \in from..RemoteSize :
                      repair' = [repair EXCEPT
                                   !.pc = "check",
                                   !.sent = @ + (to - from + 1),
                                   !.packet =
                                     Received(RepairPacket(repair.leader,
                                                           from, to),
                                              repair.bad)]
    /\ UNCHANGED <<storeVars, queueVars, notRepair>>

\* line 239: applyRepairBlobObjects called with a packet of the leader's
\* next objects, whatever the chunk id
ApplyCall ==
    /\ repair.pc = "init"
    /\ chunkExists(repair.fileId)
    /\ \E to \in (chunk.lastOid + 1)..RemoteSize :
         repair' = [repair EXCEPT
                      !.pc = "apply",
                      !.start = chunk.lastOid,
                      !.sent = to - chunk.lastOid,
                      !.packet = Received(RepairPacket(repair.leader,
                                                       chunk.lastOid + 1, to),
                                          repair.bad)]
    /\ UNCHANGED <<storeVars, queueVars, notRepair>>

\* lines 220-226
RepairCheckOffset ==
    /\ repair.pc = "check"
    /\ repair' = IF InvalidOffset(repair.packet.offset, repair.fileId,
                                  RemoteSize)
                 THEN [repair EXCEPT !.pc = "returned",
                                     !.err = "InvalidOffset"]
                 ELSE [repair EXCEPT !.pc = "apply"]
    /\ UNCHANGED <<storeVars, queueVars, notRepair>>

\* lines 227-233
RepairApply ==
    /\ repair.pc = "apply"
    /\ LET r == applyRepairBlobObjects(chunk, repair.packet,
                                       repair.packet.offset)
       IN /\ chunk' = r.c
          /\ repair' = IF r.err # "OK"
                       THEN [repair EXCEPT !.pc = "returned", !.err = r.err]
                       ELSE [repair EXCEPT !.pc = "loop"]
    /\ UNCHANGED <<storeRest, queueVars, notRepair>>

(***************************************************************************)
(* The watermarks of a replica, kept for the files of a filter list        *)
(* (blob_repair.go)                                                        *)
(***************************************************************************)
MaxFileId == 3
MaxFiles == 2
FileIds == 1..MaxFileId

\* storage.FileInfo: a file id and its watermark
FileInfos == [FileId : FileIds, Size : 0..MaxOid]

\* what GetAllWatermark answers: one FileInfo for each chunk of the replica
Watermarks ==
    {l \in UNION {[1..n -> FileInfos] : n \in 0..MaxFiles} :
        \A i, j \in DOMAIN l : l[i].FileId = l[j].FileId => i = j}

\* the file ids a caller asks for
Filters == UNION {[1..n -> FileIds] : n \in 0..MaxFiles}

RECURSIVE MatchesOf(_, _)
\* lines 51-55, 96-100: the inner loop, cid appended once for each equal
\* id of the filter
MatchesOf(cid, filterBlobFileids) ==
    IF filterBlobFileids = <<>> THEN <<>>
    ELSE (IF cid.FileId = Head(filterBlobFileids) THEN <<cid>> ELSE <<>>)
            \o MatchesOf(cid, Tail(filterBlobFileids))

RECURSIVE FilteredFiles(_, _)
\* lines 50-56, 95-101: the outer loop that builds files
FilteredFiles(blobFiles, filterBlobFileids) ==
    IF blobFiles = <<>> THEN <<>>
    ELSE MatchesOf(Head(blobFiles), filterBlobFileids)
            \o FilteredFiles(Tail(blobFiles), filterBlobFileids)

RECURSIVE FilesMap(_, _)
\* lines 57-60, 102-105: fileMetas.files[file.FileId] = file, in list order
FilesMap(files, m) ==
    IF files = <<>> THEN m
    ELSE FilesMap(Tail(files),
                  [id \in DOMAIN m \cup {Head(files).FileId} |->
                      IF id = Head(files).FileId THEN Head(files) ELSE m[id]])

\* lines 41-61
getLocalBlobFileMetas(blobFiles, filterBlobFileids) ==
    FilesMap(FilteredFiles(blobFiles, filterBlobFileids), <<>>)

\* lines 88-105: files is built as in getLocalBlobFileMetas, and the map is
\* filled from allFiles
getRemoteBlobFileMetas(allFiles, filterBlobFileids) ==
    FilesMap(allFiles, <<>>)

NoMetas ==
    [pc |-> "off", op |-> "none", blobFiles |-> <<>>, filter |-> <<>>,
     files |-> <<>>]

\* a caller about to gather the watermarks of a replica, for each answer
\* of the replica and each filter list
MetasScenarios ==
    {[NoMetas EXCEPT !.pc = "init", !.blobFiles = l, !.filter = f] :
        l \in Watermarks, f \in Filters}

GetLocalBlobFileMetas ==
    /\ metas.pc = "init"
    /\ metas' = [metas EXCEPT
                   !.pc = "returned",
                   !.op = "getLocalBlobFileMetas",
                   !.files = getLocalBlobFileMetas(metas.blobFiles,
                                                   metas.filter)]
    /\ UNCHANGED <<storeVars, queueVars, notMetas>>

GetRemoteBlobFileMetas ==
    /\ metas.pc = "init"
    /\ metas' = [metas EXCEPT
                   !.pc = "returned",
                   !.op = "getRemoteBlobFileMetas",
                   !.files = getRemoteBlobFileMetas(metas.blobFiles,
                                                    metas.filter)]
    /\ UNCHANGED <<storeVars, queueVars, notMetas>>

(***************************************************************************)
(* The leader's answer to a repair read: syncData (blob_repair.go)         *)
(***************************************************************************)
MaxObjects == 3
MB == 2^20
\* lines 302-303
PkgRepairCReadRespMaxSize == 10 * MB
PkgRepairCReadRespLimitSize == 15 * MB

\* the payload lengths of the objects to send, in bytes: a few bytes, more
\* than half a buffer, a whole limit; none of them is the sentinel
PackSizes == {1, 6 * MB, PkgRepairCReadRespLimitSize}

\* line 312: what GetObjects answers for [startOid, endOid]: the objects in
\* oid order from startOid 1 on, a deleted one with the sentinel as Size
ObjectLists ==
    UNION {[1..n -> PackSizes \cup {TombstoneFileSize}] : n \in 0..MaxObjects}

\* objects[k] of the Go slice, k from 0: its Oid and its Size
OidAt(objects, k) == k + 1
SizeAt(objects, k) == objects[k + 1]
\* k is an index of the Go slice
InBounds(objects, k) == 0 <= k /\ k < Len(objects)

\* lines 317-320
realSize(objects, i) ==
    IF SizeAt(objects, i) # TombstoneFileSize THEN SizeAt(objects, i) ELSE 0

\* line 321
MustFlush(pos, size) ==
    pos + size + ObjectHeaderSize >= PkgRepairCReadRespLimitSize

\* lines 289-299: the packet posted, its Offset lastOid and its Size; oids
\* is history: the objects packed in its data
Posted(lastOid, size, oids) == [offset |-> lastOid, size |-> size, oids |-> oids]

\* i, pos, bufLen (len(databuf)) and cur (history: the oids packed in databuf)
\* are the locals of syncData, posts the packets written to conn
NoSync ==
    [pc |-> "off", objects |-> <<>>, i |-> 0, pos |-> 0, bufLen |-> 0,
     cur |-> <<>>, posts |-> <<>>, err |-> "OK"]

\* lines 312-315
SyncScenarios ==
    {[NoSync EXCEPT !.pc = "loop", !.objects = l,
                    !.bufLen = PkgRepairCReadRespMaxSize] : l \in ObjectLists}

\* lines 316, 321-327: the loop test and the flush of the buffer before
\* objects[i]; indexing the slice outside its bounds panics, and
\* postRepairData may fail to write to conn
SyncDataFlush ==
    /\ leaderSync.pc = "loop"
    /\ UNCHANGED <<storeVars, queueVars, notSync>>
    /\ IF leaderSync.i >= Len(leaderSync.objects)
       THEN leaderSync' = [leaderSync EXCEPT !.pc = "final"]
       ELSE IF ~MustFlush(leaderSync.pos, realSize(leaderSync.objects, leaderSync.i))
       THEN leaderSync' = [leaderSync EXCEPT !.pc = "pack"]
       ELSE IF ~InBounds(leaderSync.objects, leaderSync.i - 1)
       THEN leaderSync' = [leaderSync EXCEPT !.pc = "panic", !.err = "IndexOutOfRange"]
       ELSE \E ok \in BOOLEAN :
              leaderSync' = IF ok
                      THEN [leaderSync EXCEPT
                              !.pc = "pack",
                              !.posts = Append(@, Posted(OidAt(leaderSync.objects,
                                                               leaderSync.i - 1),
                                                         leaderSync.pos, leaderSync.cur)),
                              !.bufLen = PkgRepairCReadRespMaxSize,
                              !.pos = 0,
                              !.cur = <<>>]
                      ELSE [leaderSync EXCEPT !.pc = "returned",
                                        !.err = "WriteToConn"]

\* lines 328-332: databuf[pos:] panics when pos is past the buffer; the
\* result of PackObject is not looked at
SyncDataPack ==
    /\ leaderSync.pc = "pack"
    /\ UNCHANGED <<storeVars, queueVars, notSync>>
    /\ leaderSync' = IF leaderSync.pos > leaderSync.bufLen
               THEN [leaderSync EXCEPT !.pc = "panic",
                                 !.err = "SliceBoundsOutOfRange"]
               ELSE [leaderSync EXCEPT
                       !.pc = "loop",
                       !.cur = Append(@, OidAt(leaderSync.objects, leaderSync.i)),
                       !.pos = @ + ObjectHeaderSize
                                 + realSize(leaderSync.objects, leaderSync.i),
                       !.i = @ + 1]

\* line 334: the last packet
SyncDataFinal ==
    /\ leaderSync.pc = "final"
    /\ UNCHANGED <<storeVars, queueVars, notSync>>
    /\ IF ~InBounds(leaderSync.objects, Len(leaderSync.objects) - 1)
       THEN leaderSync' = [leaderSync EXCEPT !.pc = "panic", !.err = "IndexOutOfRange"]
       ELSE \E ok \in BOOLEAN :
              leaderSync' = IF ok
                      THEN [leaderSync EXCEPT
                              !.pc = "returned",
                              !.posts = Append(@,
                                  Posted(OidAt(leaderSync.objects,
                                               Len(leaderSync.objects) - 1),
                                         leaderSync.pos, leaderSync.cur))]
                      ELSE [leaderSync EXCEPT !.pc = "returned",
                                        !.err = "WriteToConn"]

(***************************************************************************)
(* The inodes of a metaPartition (partition_fsmop_inode.go).  Every        *)
(* operation holds inodeMu from its first line to its return, so each is   *)
(* one step.  The free list holds the inodes pushed, by reference: an      *)
(* entry is the number of an inode of the tree.                            *)
(***************************************************************************)
MaxIno == 2
MaxMetaOps == 5
Inos == 1..MaxIno
InodeTypes == {"ModeRegular", "ModeDir"}

\* the Inode a client creates: a file has one link, a directory two
NewInode(type) ==
    [Type |-> type, NLink |-> IF type = "ModeDir" THEN 2 ELSE 1,
     MarkDelete |-> 0]

NewMetaPartition ==
    [inodeTree |-> <<>>, freeList |-> <<>>, status |-> "OpOk", nOps |-> 0]

\* inodeTree.Get, ReplaceOrInsert and Delete
TreeHas(m, ino) == ino \in DOMAIN m.inodeTree
TreeInsert(m, ino, i) ==
    [m EXCEPT !.inodeTree =
        [k \in DOMAIN m.inodeTree \cup {ino} |->
            IF k = ino THEN i ELSE m.inodeTree[k]]]
TreeRemove(m, ino) ==
    [m EXCEPT !.inodeTree =
        [k \in DOMAIN m.inodeTree \ {ino} |-> m.inodeTree[k]]]

\* the operation returns status
Status(m, status) == [m EXCEPT !.status = status, !.nOps = @ + 1]

\* lines 20-30
createInodeAll(m, ino, type) ==
    IF TreeHas(m, ino) THEN Status(m, "OpExistErr")
    ELSE Status(TreeInsert(m, ino, NewInode(type)), "OpOk")

\* lines 32-50: NLink is a uint32
createLinkInodeAll(m, ino) ==
    IF ~TreeHas(m, ino) THEN Status(m, "OpNotExistErr")
    ELSE IF m.inodeTree[ino].Type = "ModeDir"
    THEN Status(m, "OpArgMismatchErr")
    ELSE Status([m EXCEPT !.inodeTree[ino].NLink = (@ + 1) % U32], "OpOk")

\* lines 97-116
deleteInodeAll(m, ino) ==
    IF ~TreeHas(m, ino) THEN Status(m, "OpNotExistErr")
    ELSE IF m.inodeTree[ino].Type = "ModeRegular"
    THEN Status([m EXCEPT !.inodeTree[ino].NLink = (@ - 1) % U32], "OpOk")
    ELSE Status(TreeRemove(m, ino), "OpOk")

\* lines 175-198
evictInodeAll(m, ino) ==
    IF ~TreeHas(m, ino) THEN Status(m, "OpNotExistErr")
    ELSE IF m.inodeTree[ino].Type = "ModeDir"
    THEN IF m.inodeTree[ino].NLink < 2
         THEN Status(TreeRemove(m, ino), "OpOk")
         ELSE Status(m, "OpOk")
    ELSE IF m.inodeTree[ino].NLink < 1
    THEN Status([m EXCEPT !.inodeTree[ino].MarkDelete = 1,
                          !.freeList = Append(@, ino)], "OpOk")
    ELSE Status(m, "OpOk")

createInode(ino, type) ==
    /\ mp.nOps < MaxMetaOps
    /\ mp' = createInodeAll(mp, ino, type)
    /\ UNCHANGED <<storeVars, queueVars, notMp>>

createLinkInode(ino) ==
    /\ mp.nOps < MaxMetaOps
    /\ mp' = createLinkInodeAll(mp, ino)
    /\ UNCHANGED <<storeVars, queueVars, notMp>>

deleteInode(ino) ==
    /\ mp.nOps < MaxMetaOps
    /\ mp' = deleteInodeAll(mp, ino)
    /\ UNCHANGED <<storeVars, queueVars, notMp>>

evictInode(ino) ==
    /\ mp.nOps < MaxMetaOps
    /\ mp' = evictInodeAll(mp, ino)
    /\ UNCHANGED <<storeVars, queueVars, notMp>>

(***************************************************************************)
(* The store under concurrent callers                                      *)
(***************************************************************************)
QueueInit ==
    /\ availChunkCh = NewAvailChunkCh
    /\ unavailChunkCh = NewUnavailChunkCh
    /\ held = {}
    /\ qpc = [w \in QWorkers |-> "idle"]
    /\ qarg = [w \in QWorkers |-> QNoArg]
    /\ qret = QNoRet
    /\ qOps = 0

StoreInit ==
    /\ chunk = NewChunk
    /\ compactLock = NoThread
    /\ commitLock = FreeCommitLock
    /\ compact = NoCompact
    /\ pc = [t \in Threads |-> "idle"]
    /\ arg = [t \in Threads |-> NoArg]
    /\ ret = NoRet
    /\ nOps = 0
    /\ written = NoneWritten
    /\ markDeleted = {}

Init ==
    /\ QueueInit
    /\ StoreInit
    /\ repair = NoRepair
    /\ metas = NoMetas
    /\ leaderSync = NoSync
    /\ mp = NewMetaPartition

Next ==
    \/ \E t \in Workers, cid \in ChunkIds, oid \in Oids, size \in Sizes,
          d \in Payloads, crc \in Crcs : WriteCall(t, cid, oid, size, d, crc)
    \/ \E t \in Workers : WriteAppend(t)
    \/ \E t \in Workers : WriteDone(t)
    \/ \E t \in Workers, cid \in ChunkIds, oid \in Oids, crc \in Crcs :
          WriteDeleteDentry(t, cid, oid, crc)
    \/ \E t \in Workers, cid \in ChunkIds, oid \in Oids, size \in Sizes :
          ReadCall(t, cid, oid, size)
    \/ \E t \in Workers : ReadDone(t)
    \/ \E t \in Workers, cid \in ChunkIds, oid \in Oids : GetObject(t, cid, oid)
    \/ \E t \in Workers, cid \in ChunkIds, oid \in Oids : MarkDeleteCall(t, cid, oid)
    \/ \E t \in Workers : MarkDeleteDone(t)
    \/ \E t \in Workers, cid \in ChunkIds : GetDelObjectsCall(t, cid)
    \/ \E t \in Workers : GetDelObjectsLock(t)
    \/ \E t \in Workers : GetDelObjectsWalk(t)
    \/ \E t \in Workers : GetDelObjectsDone(t)
    \/ CompactStart
    \/ CompactTimeout
    \/ CompactRebuild
    \/ CompactCommitLock
    \/ CompactCommit

Spec == Init /\ [][Next]_vars

(***************************************************************************)
(* The queues under concurrent workers that put back only ids they took    *)
(***************************************************************************)
NextQueue ==
    \/ \E w \in QWorkers : GetAvailChunk(w)
    \/ \E w \in QWorkers : GetUnAvailChunk(w)
    \/ \E w \in QWorkers : GetChunkForWriteCall(w)
    \/ \E w \in QWorkers : GetChunkForWriteSelect(w)
    \/ \E w \in QWorkers, id \in AllChunkIds : PutAvailChunkCall(w, id, FALSE)
    \/ \E w \in QWorkers : PutAvailChunkSend(w)
    \/ \E w \in QWorkers, id \in AllChunkIds : PutUnAvailChunkCall(w, id, FALSE)
    \/ \E w \in QWorkers : PutUnAvailChunkSend(w)
    \/ \E w \in QWorkers : MoveChunkToUnavailChanCall(w)
    \/ \E w \in QWorkers : MoveChunkToUnavailChanRecv(w)
    \/ \E w \in QWorkers : MoveChunkToUnavailChanSend(w)

SpecQueue == Init /\ [][NextQueue]_vars

(***************************************************************************)
(* The queues under callers that pass any chunk id to the put operations   *)
(***************************************************************************)
NextQueueAnyId ==
    \/ \E w \in QWorkers : GetAvailChunk(w)
    \/ \E w \in QWorkers : GetUnAvailChunk(w)
    \/ \E w \in QWorkers : GetChunkForWriteCall(w)
    \/ \E w \in QWorkers : GetChunkForWriteSelect(w)
    \/ \E w \in QWorkers, id \in AllChunkIds : PutAvailChunkCall(w, id, TRUE)
    \/ \E w \in QWorkers : PutAvailChunkSend(w)
    \/ \E w \in QWorkers, id \in AllChunkIds : PutUnAvailChunkCall(w, id, TRUE)
    \/ \E w \in QWorkers : PutUnAvailChunkSend(w)
    \/ \E w \in QWorkers : MoveChunkToUnavailChanCall(w)
    \/ \E w \in QWorkers : MoveChunkToUnavailChanRecv(w)
    \/ \E w \in QWorkers : MoveChunkToUnavailChanSend(w)

SpecQueueAnyId == Init /\ [][NextQueueAnyId]_vars


(***************************************************************************)
(* Writers and the compactor of the chunk: payloads play no part in who    *)
(* gets the compact lock, so every Write passes the same one, with its     *)
(* checksum                                                                *)
(***************************************************************************)
OnePayload == MinOf(Payloads)

NextWriteCompact ==
    \/ \E t \in Workers, cid \in ChunkIds, oid \in Oids, size \in Sizes :
          WriteCall(t, cid, oid, size, OnePayload,
                    ChecksumIEEE(Prefix(OnePayload, size)))
    \/ \E t \in Workers : WriteAppend(t)
    \/ \E t \in Workers : WriteDone(t)
    \/ \E t \in Workers, cid \in ChunkIds, oid \in Oids :
          WriteDeleteDentry(t, cid, oid, 0)
    \/ CompactStart
    \/ CompactTimeout
    \/ CompactRebuild
    \/ CompactCommitLock
    \/ CompactCommit

SpecWriteCompact == Init /\ [][NextWriteCompact]_vars

(***************************************************************************)
(* The index of the chunk under writers, deleters and the compactor, every *)
(* Write passing the same payload                                          *)
(***************************************************************************)
\* a payload length that does not fit in the 32 bits of Object.Size: after
\* it the data file is longer than an Object.Offset can tell
BigSize == U32 + 1

NextIndex ==
    \/ NextWriteCompact
    \/ \E t \in Workers, oid \in Oids :
          WriteCall(t, TheChunk, oid, BigSize, OnePayload,
                    ChecksumIEEE(Prefix(OnePayload, BigSize)))
    \/ \E t \in Workers, cid \in ChunkIds, oid \in Oids : MarkDeleteCall(t, cid, oid)
    \/ \E t \in Workers : MarkDeleteDone(t)

SpecIndex == Init /\ [][NextIndex]_vars

(***************************************************************************)
(* GetDelObjects among the writers and deleters of the chunk, every Write  *)
(* passing the same payload                                                *)
(***************************************************************************)
NextDelObjects ==
    \/ \E t \in Workers, cid \in ChunkIds, oid \in Oids, size \in Sizes :
          WriteCall(t, cid, oid, size, OnePayload,
                    ChecksumIEEE(Prefix(OnePayload, size)))
    \/ \E t \in Workers : WriteAppend(t)
    \/ \E t \in Workers : WriteDone(t)
    \/ \E t \in Workers, cid \in ChunkIds, oid \in Oids :
          WriteDeleteDentry(t, cid, oid, 0)
    \/ \E t \in Workers, cid \in ChunkIds, oid \in Oids :
          MarkDeleteCall(t, cid, oid)
    \/ \E t \in Workers : MarkDeleteDone(t)
    \/ \E t \in Workers, cid \in ChunkIds : GetDelObjectsCall(t, cid)
    \/ \E t \in Workers : GetDelObjectsLock(t)
    \/ \E t \in Workers : GetDelObjectsWalk(t)
    \/ \E t \in Workers : GetDelObjectsDone(t)

SpecDelObjects == Init /\ [][NextDelObjects]_vars

(***************************************************************************)
(* Every caller that takes a lock of the chunk: writers, readers, deleters *)
(* and the compactor, every Write passing the same payload                 *)
(***************************************************************************)
NextLocks ==
    \/ NextDelObjects
    \/ \E t \in Workers, cid \in ChunkIds, oid \in Oids, size \in Sizes :
          ReadCall(t, cid, oid, size)
    \/ \E t \in Workers : ReadDone(t)
    \/ CompactStart
    \/ CompactTimeout
    \/ CompactRebuild
    \/ CompactCommitLock
    \/ CompactCommit

SpecLocks == Init /\ [][NextLocks]_vars

(***************************************************************************)
(* One follower repairing the chunk from its leader                        *)
(***************************************************************************)
InitRepair ==
    /\ QueueInit
    /\ StoreInit
    /\ repair \in RepairScenarios
    /\ metas = NoMetas
    /\ leaderSync = NoSync
    /\ mp = NewMetaPartition

NextRepair ==
    \/ Replicate
    \/ RepairStart
    \/ RepairRead
    \/ RepairCheckOffset
    \/ RepairApply

SpecRepair == InitRepair /\ [][NextRepair]_vars

(***************************************************************************)
(* One caller gathering the watermarks of one replica                      *)
(***************************************************************************)
InitMetas ==
    /\ QueueInit
    /\ StoreInit
    /\ repair = NoRepair
    /\ metas \in MetasScenarios
    /\ leaderSync = NoSync
    /\ mp = NewMetaPartition

NextMetas ==
    \/ GetLocalBlobFileMetas
    \/ GetRemoteBlobFileMetas

SpecMetas == InitMetas /\ [][NextMetas]_vars

(***************************************************************************)
(* The leader answering one repair read                                    *)
(***************************************************************************)
InitSync ==
    /\ QueueInit
    /\ StoreInit
    /\ repair = NoRepair
    /\ metas = NoMetas
    /\ leaderSync \in SyncScenarios
    /\ mp = NewMetaPartition

NextSync ==
    \/ SyncDataFlush
    \/ SyncDataPack
    \/ SyncDataFinal

SpecSync == InitSync /\ [][NextSync]_vars

(***************************************************************************)
(* The inode operations applied to one metaPartition                       *)
(***************************************************************************)
NextMeta ==
    \/ \E ino \in Inos, type \in InodeTypes : createInode(ino, type)
    \/ \E ino \in Inos : createLinkInode(ino)
    \/ \E ino \in Inos : deleteInode(ino)
    \/ \E ino \in Inos : evictInode(ino)

SpecMeta == Init /\ [][NextMeta]_vars

(***************************************************************************)
(* applyRepairBlobObjects on a follower, called with any packet            *)
(***************************************************************************)
NextApply ==
    \/ Replicate
    \/ ApplyCall
    \/ RepairApply

SpecApply == InitRepair /\ [][NextApply]_vars

(***************************************************************************)
(* Steps of the store, as seen from outside                                *)
(***************************************************************************)
\* this step is thread t calling Write or WriteDeleteDentry
IsAppendCall(t) ==
    /\ nOps' = nOps + 1
    /\ \/ pc[t] = "idle" /\ pc'[t] = "w_data"
       \/ ret'.t = t /\ ret'.op \in {"Write", "WriteDeleteDentry"}

\* the oid that call was given
AppendCallOid(t) == IF pc'[t] = "w_data" THEN arg'[t].oid ELSE ret'.oid

\* this step is a Write or WriteDeleteDentry returning success
IsAppendReturn ==
    /\ ret'.op \in {"Write", "WriteDeleteDentry"}
    /\ ret'.err = "OK"
    /\ chunk'.idx # chunk.idx

(***************************************************************************)
(* C1. Round trip: in every state where a Write of an oid has succeeded    *)
(* and no MarkDelete, WriteDeleteDentry or compaction of the chunk has     *)
(* happened since, a Read of that oid with the written size succeeds,      *)
(* fills the buffer with data[:size] and returns the written crc,          *)
(* whatever other writes happened in between.                              *)
(***************************************************************************)
C1_RoundTrip ==
    \A o \in Oids :
        written[o] # <<>> =>
            LET w == written[o][1]
                r == ReadAll(chunk, o, w.size)
            IN r.err = "OK" /\ r.buf = Prefix(w.d, w.size) /\ r.crc = w.crc

(***************************************************************************)
(* C2. Monotone tail: every record that Write or WriteDeleteDentry         *)
(* appends has an oid strictly above the oids appended before it, whose    *)
(* maximum is lastOid; no oid is appended twice.                           *)
(***************************************************************************)
C2_MonotoneTail ==
    [][IsAppendReturn => ret'.oid > chunk.lastOid]_vars

(***************************************************************************)
(* C3. Stale oid rejection: once Write of oid O has succeeded and O is the *)
(* watermark, a Write of the same oid O that finds the lock free returns   *)
(* ErrObjectSmaller and leaves the chunk unchanged; a Write of O+1 that    *)
(* completes makes lastOid O+1.                                            *)
(***************************************************************************)
C3_StaleOidRejected ==
    [][\A t \in Workers :
         /\ ( /\ IsAppendCall(t)
              /\ ~(ret'.t = t /\ ret'.op = "WriteDeleteDentry")
              /\ ~(ret'.t = t /\ ret'.err \in {"ErrorFileNotFound", "ErrorAgain"})
              /\ written[AppendCallOid(t)] # <<>>
              /\ chunk.lastOid = AppendCallOid(t) )
            => ( /\ ret'.t = t
                 /\ ret'.err = "ErrObjectSmaller"
                 /\ chunk' = chunk )
         /\ ( /\ pc[t] = "w_index" /\ pc'[t] = "idle"
              /\ arg[t].oid = chunk.lastOid + 1 )
            => ( ret'.err = "OK" /\ chunk'.lastOid = arg[t].oid )
      ]_vars

(***************************************************************************)
(* C4. Tombstone hides object: in every state after MarkDelete of an oid   *)
(* has returned success, GetObject and Read of that oid return             *)
(* ErrorObjNotFound.                                                       *)
(***************************************************************************)
C4_TombstoneHides ==
    \A o \in markDeleted :
        /\ GetObjectAll(chunk, o).err = "ErrorObjNotFound"
        /\ \A size \in Sizes : ReadAll(chunk, o, size).err = "ErrorObjNotFound"

C6_NoIndexMutationDuringCompaction ==
    [][/\ (compactLock = Compactor /\ compactLock' = Compactor)
            => (chunk'.tree = chunk.tree /\ chunk'.idx = chunk.idx)
       /\ (chunk'.tree # chunk.tree \/ chunk'.idx # chunk.idx)
            => (compactLock # NoThread \/ IsAppendReturn)
      ]_vars


\* the oids the repair was asked to bring to the follower
Repaired == (repair.start + 1)..RemoteSize

(***************************************************************************)
(* C7. Repair convergence: when streamRepairBlobObjects has returned on a  *)
(* follower that has the chunk, and whose leader sent well-formed packets  *)
(* with every object above the follower's watermark, it returned no error, *)
(* the follower's lastOid is the leader's, every live object among them is *)
(* read on the follower with the leader's bytes and CRC, and every deleted *)
(* one is not found.                                                       *)
(***************************************************************************)
C7_RepairConvergence ==
    (repair.pc = "returned" /\ chunkExists(repair.fileId)
        /\ repair.bad = 0) =>
        /\ repair.err = "OK"
        /\ chunk.lastOid = RemoteSize
        /\ \A oid \in Repaired :
             LET o == repair.leader[oid]
                 r == ReadAll(chunk, oid, o.size)
             IN IF o.deleted
                THEN GetObjectAll(chunk, oid).err = "ErrorObjNotFound"
                ELSE /\ r.err = "OK"
                     /\ r.buf = Prefix(o.d, o.size)
                     /\ r.crc = ChecksumIEEE(Prefix(o.d, o.size))

(***************************************************************************)
(* Where a chunk id is                                                     *)
(***************************************************************************)
\* how many times id occurs in a channel
CountIn(ch, id) == Cardinality({i \in 1..Len(ch) : ch[i] = id})

\* the workers that carry id into a send they have started
InFlight(id) ==
    {w \in QWorkers : qpc[w] \in {"send_avail", "send_unavail", "mv_send"}
                      /\ qarg[w].id = id}

\* the number of places id is in: the two channels, the ids taken by
\* workers, and the sends under way
Places(id) ==
    CountIn(availChunkCh, id) + CountIn(unavailChunkCh, id)
      + (IF id \in held THEN 1 ELSE 0) + Cardinality(InFlight(id))

\* this step is worker w returning from GetChunkForWrite
IsGetChunkForWriteReturn(w) ==
    /\ qret'.t = w
    /\ qret'.op = "GetChunkForWrite"
    /\ \/ qpc[w] = "gw_select" /\ qpc'[w] = "idle"
       \/ qpc[w] = "idle" /\ qpc'[w] = "idle" /\ qOps' = qOps + 1

(***************************************************************************)
(* C8. GetChunkForWrite either removes the id at the head of the           *)
(* available queue and returns it with a nil error, or returns the         *)
(* ErrorNoAvaliFile error and leaves the queue alone; it never returns a   *)
(* nil error with an id that was not in the queue.                         *)
(***************************************************************************)
C8_GetChunkForWrite ==
    [][\A w \in QWorkers :
         IsGetChunkForWriteReturn(w) =>
            \/ /\ qret'.err = "OK"
               /\ availChunkCh # <<>>
               /\ qret'.id = Head(availChunkCh)
               /\ availChunkCh' = Tail(availChunkCh)
            \/ /\ qret'.err = "ErrorNoAvaliFile"
               /\ availChunkCh' = availChunkCh
      ]_vars

(***************************************************************************)
(* C9. Queue partition: every chunk id 1..TinyChunkCount is in exactly one *)
(* place (available queue, unavailable queue, or held by a worker), no id  *)
(* is in both queues, and the queued and held ids number TinyChunkCount.   *)
(***************************************************************************)
C9_QueuePartition ==
    /\ \A id \in AllChunkIds : Places(id) = 1
    /\ \A i \in 1..Len(availChunkCh) :
         /\ availChunkCh[i] \in AllChunkIds
         /\ CountIn(unavailChunkCh, availChunkCh[i]) = 0
    /\ \A i \in 1..Len(unavailChunkCh) : unavailChunkCh[i] \in AllChunkIds
    /\ held \subseteq AllChunkIds
    /\ Len(availChunkCh) + Len(unavailChunkCh) + Cardinality(held)
         + Cardinality({w \in QWorkers :
                          qpc[w] \in {"send_avail", "send_unavail", "mv_send"}})
       = TinyChunkCount

\* ids are in all three places at once: MoveChunkToUnavailChan carries an
\* id between its receive and its send in its second pass, a worker holds
\* one, and both queues hold some
C9_Witness ==
    /\ \E w \in QWorkers : qpc[w] = "mv_send" /\ qarg[w].i = 1
    /\ held # {}
    /\ unavailChunkCh # <<>>

(***************************************************************************)
(* C10. Queue operations never block: a worker that has started a put or   *)
(* a move is never waiting on a channel that is at capacity.               *)
(***************************************************************************)
C10_QueueOpsNeverBlock ==
    \A w \in QWorkers :
        /\ qpc[w] = "send_avail" => CanSend(availChunkCh)
        /\ qpc[w] \in {"send_unavail", "mv_send"} => CanSend(unavailChunkCh)


\* this step is DoCompactWork returning success after its commit
IsCompactSuccess ==
    /\ pc[Compactor] = "c_commit"
    /\ pc'[Compactor] = "idle"
    /\ ret'.err = "OK"

\* the oids of the tree's entries that are tombstones
Tombstoned(c) == {o \in DOMAIN c.tree : c.tree[o].size = TombstoneFileSize}

(***************************************************************************)
(* C11. Compaction result: when DoCompactWork returns success after having *)
(* taken the lock, deleteBytes is 0, the index file holds no tombstone,    *)
(* every oid that was live when the compaction began is read with the      *)
(* bytes and crc it had then, every oid that was a tombstone then is not   *)
(* found, and released is fileBytes before minus fileBytes after.          *)
(***************************************************************************)
C11_CompactionResult ==
    [][IsCompactSuccess =>
         LET old == compact.snap IN
         /\ chunk'.deleteBytes = 0
         /\ \A i \in 1..Len(chunk'.idx) :
              chunk'.idx[i].size # TombstoneFileSize
         /\ \A o \in DOMAIN old.tree \ Tombstoned(old) :
              LET was == ReadAll(old, o, old.tree[o].size)
                  now == ReadAll(chunk', o, old.tree[o].size)
              IN now.err = "OK" /\ now.buf = was.buf /\ now.crc = was.crc
         /\ \A o \in Tombstoned(old) :
              GetObjectAll(chunk', o).err = "ErrorObjNotFound"
         /\ ret'.released = old.fileBytes - chunk'.fileBytes
      ]_vars

(***************************************************************************)
(* Reboot: the tree rebuilt from the index file                            *)
(***************************************************************************)
RECURSIVE Replay(_, _)
\* the reboot rule: the records of the index file in append order, a later
\* record for an oid replacing the earlier one
Replay(idx, tree) ==
    IF idx = <<>> THEN tree
    ELSE Replay(Tail(idx), TreePut(tree, Head(idx)))

\* the chunk after a reboot
Rebooted(c) == [c EXCEPT !.tree = Replay(c.idx, EmptyTree)]

\* the oids that the tree or the index file knows
KnownOids(c) == DOMAIN c.tree \cup {c.idx[i].oid : i \in 1..Len(c.idx)}

(***************************************************************************)
(* C12. Post-reboot equivalence: in every reachable state of the chunk,    *)
(* get(oid) on the tree replayed from the index file gives what get(oid)   *)
(* gives on the running tree, for every oid.                               *)
(***************************************************************************)
C12_PostRebootEquivalence ==
    \A o \in KnownOids(chunk) :
        TreeGet(Rebooted(chunk), o) = TreeGet(chunk, o)

RECURSIVE MaxOidIn(_)
\* the largest oid among the records of an index file, 0 when it is empty
MaxOidIn(idx) ==
    IF idx = <<>> THEN 0
    ELSE LET m == MaxOidIn(Tail(idx))
         IN IF Head(idx).oid > m THEN Head(idx).oid ELSE m

(***************************************************************************)
(* C13. Watermark invariant, as claimed: in every reachable state lastOid  *)
(* is the largest oid among the records present in the index file, 0 when  *)
(* the file is empty.                                                      *)
(***************************************************************************)
C13_WatermarkIsMaxPresent == chunk.lastOid = MaxOidIn(chunk.idx)

(***************************************************************************)
(* C13, amended: in every reachable state lastOid is the largest oid ever  *)
(* appended to the index file, 0 when nothing was; it is never below the   *)
(* largest oid present in the file, and a compaction leaves it unchanged.  *)
(***************************************************************************)
C13_WatermarkIsMaxAppended ==
    /\ chunk.lastOid = chunk.appended
    /\ chunk.lastOid >= MaxOidIn(chunk.idx)

\* a compaction has dropped the record with the largest oid: the watermark
\* is above every record present
C13_Witness ==
    /\ chunk.lastOid > MaxOidIn(chunk.idx)
    /\ ret.op = "DoCompactWork" /\ ret.err = "OK"
    /\ pc[Compactor] = "idle"

\* the oids of the tree's entries that are not tombstones
Live(c) == DOMAIN c.tree \ Tombstoned(c)

IsReadReturn ==
    /\ ret'.op = "Read"
    /\ \/ nOps' = nOps + 1 /\ ret'.t \in Workers /\ pc' = pc
       \/ \E t \in Workers : pc[t] = "r_body" /\ pc'[t] = "idle"

(***************************************************************************)
(* C15. Read error kinds: a Read on a chunk that exists, of an oid above   *)
(* lastOid or absent or tombstoned, returns ErrorObjNotFound;              *)
(* ErrorFileNotFound is returned only for a chunk id that has no chunk;    *)
(* a Read of a live object with a size other than the indexed one returns  *)
(* ErrorParamMismatch.                                                     *)
(***************************************************************************)
C15_ReadErrorKinds ==
    [][IsReadReturn =>
         LET oid == ret'.oid
             o == TreeGet(chunk, oid)
         IN /\ (chunkExists(ret'.cid) /\ (oid > chunk.lastOid \/ o = <<>>))
                 => ret'.err = "ErrorObjNotFound"
            /\ ret'.err = "ErrorFileNotFound" => ~chunkExists(ret'.cid)
            /\ ( /\ chunkExists(ret'.cid)
                 /\ oid <= chunk.lastOid
                 /\ o # <<>>
                 /\ o[1].size # ret'.size )
                 => ret'.err = "ErrorParamMismatch"
      ]_vars

(***************************************************************************)
(* C16. Packet offset validation: streamRepairBlobObjects rejects a        *)
(* response packet with the invalid-offset error exactly when the packet's *)
(* offset is above the leader's watermark, and hands every other packet to *)
(* applyRepairBlobObjects.                                                 *)
(***************************************************************************)
C16_PacketOffsetValidation ==
    [][(repair.pc = "check" /\ repair'.pc # "check") =>
         IF repair.packet.offset > RemoteSize
         THEN repair'.pc = "returned" /\ repair'.err = "InvalidOffset"
         ELSE repair'.pc = "apply"
      ]_vars

\* the record of a packet is a live object whose body does not have the crc
\* of its header
BadCrc(o) ==
    o.size # TombstoneFileSize /\ ChecksumIEEE(Prefix(o.d, o.size)) # o.crc

\* the first such record of the packet that only sound live records precede:
\* the one applyRepairBlobObjects meets (0: there is none)
FirstBadCrc(recs) ==
    LET met == {i \in DOMAIN recs :
                  /\ BadCrc(recs[i])
                  /\ \A j \in 1..(i - 1) :
                        recs[j].size # TombstoneFileSize /\ ~BadCrc(recs[j])}
    IN IF met = {} THEN 0 ELSE CHOOSE i \in met : TRUE

(***************************************************************************)
(* C17. CRC check on repair apply: when applyRepairBlobObjects meets a     *)
(* record that is not a tombstone and whose body's CRC32 is not the crc of *)
(* its header, it returns an error, the object is not written to the local *)
(* store, and streamRepairBlobObjects returns that error instead of going  *)
(* on.                                                                     *)
(***************************************************************************)
C17_CrcCheckOnRepairApply ==
    [][(repair.pc = "apply" /\ repair'.pc # "apply"
            /\ FirstBadCrc(repair.packet.recs) # 0) =>
         LET o == repair.packet.recs[FirstBadCrc(repair.packet.recs)]
         IN /\ repair'.pc = "returned"
            /\ repair'.err # "OK"
            /\ TreeGet(chunk', o.oid) = TreeGet(chunk, o.oid)
            /\ chunk'.lastOid < o.oid
      ]_vars

\* the first tombstone of the packet that only sound live records precede
\* (0: there is none)
FirstTombstone(recs) ==
    LET met == {i \in DOMAIN recs :
                  /\ recs[i].size = TombstoneFileSize
                  /\ \A j \in 1..(i - 1) :
                        recs[j].size # TombstoneFileSize /\ ~BadCrc(recs[j])}
    IN IF met = {} THEN 0 ELSE CHOOSE i \in met : TRUE

\* how many tombstone records the index file has for oid
TombstoneRecords(c, oid) ==
    Cardinality({i \in 1..Len(c.idx) :
                   c.idx[i].oid = oid /\ c.idx[i].size = TombstoneFileSize})

(***************************************************************************)
(* C18. Tombstones in a repair packet: for a header whose size is the      *)
(* tombstone sentinel applyRepairBlobObjects calls WriteDeleteDentry once  *)
(* and Write not at all, and it then applies the records that follow the   *)
(* tombstone in the packet: when they are sound, each live one of them is  *)
(* read on the follower with the leader's bytes afterwards.                *)
(***************************************************************************)
C18_TombstonesInRepairPacket ==
    [][(repair.pc = "apply" /\ repair'.pc # "apply"
            /\ FirstTombstone(repair.packet.recs) # 0) =>
         LET recs == repair.packet.recs
             t == FirstTombstone(recs)
         IN /\ TombstoneRecords(chunk', recs[t].oid)
                  = TombstoneRecords(chunk, recs[t].oid) + 1
            /\ TreeGet(chunk', recs[t].oid) = TreeGet(chunk, recs[t].oid)
            /\ (\A j \in DOMAIN recs : ~BadCrc(recs[j])) =>
                  \A j \in (t + 1)..Len(recs) :
                     recs[j].size # TombstoneFileSize =>
                        LET r == ReadAll(chunk', recs[j].oid, recs[j].size)
                        IN /\ r.err = "OK"
                           /\ r.buf = Prefix(recs[j].d, recs[j].size)
                           /\ r.crc = recs[j].crc
      ]_vars

\* the last record of oid in the index file is a tombstone
LastIsTombstone(idx, oid) ==
    \E i \in 1..Len(idx) :
        /\ idx[i].oid = oid
        /\ idx[i].size = TombstoneFileSize
        /\ \A j \in (i + 1)..Len(idx) : idx[j].oid # oid

\* the oids at most sync whose last record is a tombstone in the first k
\* records of the index file
DelObjectsAt(idx, k, sync) ==
    {oid \in {idx[i].oid : i \in 1..k} :
        oid <= sync /\ LastIsTombstone(SubSeq(idx, 1, k), oid)}

(***************************************************************************)
(* C19. GetDelObjects returns exactly the oids that are at most            *)
(* syncLastOid, the watermark sampled when it was called, and whose last   *)
(* record in the index file is a tombstone, whatever Write,                *)
(* WriteDeleteDentry and MarkDelete did before or during the call: it      *)
(* returns every such oid that was one all through the call, and only oids *)
(* that were one at some moment of the call.  (No compaction runs: the     *)
(* index file only grows, so its states during the call are its prefixes.) *)
(***************************************************************************)
C19_GetDelObjects ==
    [][\A t \in Workers :
         (pc[t] = "g_done" /\ pc'[t] = "idle") =>
            LET sync == arg[t].oid
                lens == arg[t].len0..Len(chunk.idx)
                res == {ret'.objects[i] : i \in 1..Len(ret'.objects)}
            IN /\ \A oid \in res :
                    \E k \in lens : oid \in DelObjectsAt(chunk.idx, k, sync)
               /\ \A oid \in DelObjectsAt(chunk.idx, Len(chunk.idx), sync) :
                    (\A k \in lens : oid \in DelObjectsAt(chunk.idx, k, sync))
                        => oid \in res
      ]_vars

\* the ids of a list of FileInfo, and of a list of ids
FileIdsOf(blobFiles) == {blobFiles[i].FileId : i \in 1..Len(blobFiles)}
IdsOf(filterBlobFileids) ==
    {filterBlobFileids[i] : i \in 1..Len(filterBlobFileids)}

(***************************************************************************)
(* C20. Watermark filtering: for every list of FileInfo a replica answers  *)
(* and every filter list, the keys of the map that getRemoteBlobFileMetas  *)
(* and getLocalBlobFileMetas return are exactly the file ids that are in   *)
(* the replica's list and in the filter list.                              *)
(***************************************************************************)
C20_WatermarkFiltering ==
    metas.pc = "returned" =>
        DOMAIN metas.files = FileIdsOf(metas.blobFiles) \cap IdsOf(metas.filter)

RECURSIVE PackedOids(_)
\* the oids of the packets posted, in the order they were sent
PackedOids(posts) ==
    IF posts = <<>> THEN <<>> ELSE Head(posts).oids \o PackedOids(Tail(posts))

(***************************************************************************)
(* C21. Leader-side packetisation: for every object list, the empty one    *)
(* and one whose first object alone reaches the flush limit included,      *)
(* syncData never indexes the list outside its bounds, and when it has     *)
(* returned without a write error every packet it posted has as offset the *)
(* oid of the last object packed in it, the objects are packed once each   *)
(* in oid order, and a final packet was posted.                            *)
(***************************************************************************)
C21_Packetisation ==
    /\ leaderSync.err # "IndexOutOfRange"
    /\ (leaderSync.pc = "returned" /\ leaderSync.err = "OK") =>
          /\ leaderSync.posts # <<>>
          /\ \A k \in DOMAIN leaderSync.posts :
                LET p == leaderSync.posts[k]
                IN p.oids # <<>> /\ p.offset = p.oids[Len(p.oids)]
          /\ PackedOids(leaderSync.posts)
                = [k \in 1..Len(leaderSync.objects) |-> OidAt(leaderSync.objects, k - 1)]

(***************************************************************************)
(* C24. Repair buffer bound: whenever syncData packs an object at position *)
(* pos of its buffer, pos + ObjectHeaderSize + the object's payload size   *)
(* is at most the length of the buffer, for every sequence of object       *)
(* sizes.                                                                  *)
(***************************************************************************)
C24_RepairBufferBound ==
    leaderSync.pc = "pack" =>
        leaderSync.pos + ObjectHeaderSize
            + realSize(leaderSync.objects, leaderSync.i) <= leaderSync.bufLen

\* this step is DoCompactWork called while a writer holds compactLock
IsCompactCallUnderWriter ==
    /\ pc[Compactor] = "idle"
    /\ nOps' = nOps + 1
    /\ (pc'[Compactor] # "idle" \/ ret'.t = Compactor)
    /\ compactLock \in Workers

\* what such a call leaves alone: the chunk and both locks
CompactCallIsNoOp ==
    /\ pc'[Compactor] = "idle"
    /\ ret'.op = "DoCompactWork"
    /\ ret'.released = 0
    /\ chunk' = chunk
    /\ compactLock' = compactLock
    /\ commitLock' = commitLock

\* C22 as stated: the call also returns a nil error, always
C22_TimeoutReturnsNil ==
    [][IsCompactCallUnderWriter => (CompactCallIsNoOp /\ ret'.err = "OK")]_vars

(***************************************************************************)
(* C22. Compaction lock timeout is a no-op: when doCompactAndCommit cannot *)
(* take a chunk's compactLock in time because a writer holds it,           *)
(* DoCompactWork returns 0 bytes released and leaves the chunk's tree,     *)
(* fileBytes, deleteBytes, lastOid, data and index file and both locks     *)
(* unchanged; its error is nil unless the Sync of the chunk's files that   *)
(* DoCompactWork then runs fails, and then it is that I/O error.           *)
(***************************************************************************)
C22_TimeoutIsNoOp ==
    [][IsCompactCallUnderWriter =>
         (CompactCallIsNoOp /\ ret'.err \in {"OK", "IOError"})]_vars

\* DoCompactWork has returned nil and 0 while a writer holds compactLock
C22_Witness ==
    /\ compactLock \in Workers
    /\ ret = By(Compactor, Ret("DoCompactWork", "OK", 0))
    /\ chunk.idx # <<>>

\* thread t holds a lock of the chunk
HoldsLock(t) ==
    compactLock = t \/ commitLock.w = t \/ t \in commitLock.r

\* a step of a call that is under way
CallStep ==
    \/ \E t \in Workers :
          \/ WriteAppend(t) \/ WriteDone(t)
          \/ ReadDone(t)
          \/ MarkDeleteDone(t)
          \/ GetDelObjectsLock(t) \/ GetDelObjectsWalk(t)
          \/ GetDelObjectsDone(t)
    \/ CompactRebuild
    \/ CompactCommitLock
    \/ CompactCommit

(***************************************************************************)
(* C23. Lock discipline is deadlock-free and leak-free: under any          *)
(* interleaving of Write, WriteDeleteDentry, Read, MarkDelete,             *)
(* GetDelObjects and doCompactAndCommit on the chunk, a thread whose call  *)
(* has returned, on whatever exit path, holds neither lock; while a call   *)
(* is under way some call can take a step, so the threads never wait on    *)
(* each other forever; and when every call has returned both locks are     *)
(* free and a Write is not answered ErrorAgain.                            *)
(***************************************************************************)
C23_LockDiscipline ==
    /\ \A t \in Threads : pc[t] = "idle" => ~HoldsLock(t)
    /\ (\E t \in Threads : pc[t] # "idle") => ENABLED CallStep
    /\ (\A t \in Threads : pc[t] = "idle") =>
          /\ compactLock = NoThread
          /\ commitLock = FreeCommitLock
          /\ ~WriteLockBusy(compactLock)

\* the compactor holds compactLock and waits for commitLock behind a reader
C23_Witness ==
    /\ pc[Compactor] = "c_lock"
    /\ commitLock.r # {}
    /\ ~ENABLED CompactCommitLock
    /\ compactLock = Compactor

(***************************************************************************)
(* C25. Meta-partition free-list invariant: after any sequence of          *)
(* createInode, createLinkInode, deleteInode and evictInode, every inode   *)
(* in the free list is in the tree as a non-directory with MarkDelete = 1  *)
(* and NLink < 1, and no inode is in the free list more than once.         *)
(***************************************************************************)
C25_FreeListInvariant ==
    /\ \A k \in DOMAIN mp.freeList :
          /\ TreeHas(mp, mp.freeList[k])
          /\ mp.inodeTree[mp.freeList[k]].Type # "ModeDir"
          /\ mp.inodeTree[mp.freeList[k]].MarkDelete = 1
          /\ mp.inodeTree[mp.freeList[k]].NLink < 1
    /\ \A j, k \in DOMAIN mp.freeList :
          mp.freeList[j] = mp.freeList[k] => j = k

=============================================================================
